---- MODULE Spec2Model ----
(***************************************************************************)
(* Model of backend/prices/price_service.py: the fundamentals cache and    *)
(* its hourly refresher, the live-price map fed by the upstream websocket  *)
(* consumer with its reconnect state machine, the snapshot composer and    *)
(* the ConnectionManager fan-out, the pickle file across process starts,  *)
(* and the pure methods _calculate_rsi and get_chart_data.                 *)
(*                                                                         *)
(* Numbers.  Prices are integers in thousandths of a currency unit         *)
(* ("mills"), so that inputs can carry more than two decimals.  A value    *)
(* produced by round(x, 2) is an integer in hundredths: change is in       *)
(* cents, change_percent and rsi are in hundredths of a percent.  Python   *)
(* floats are taken as exact rationals; round() rounds ties to even.       *)
(*                                                                         *)
(* Optional values.  A Python value that may be None (or NaN) is a record  *)
(* [k, v] with k in {"none", "num", "nan"}.                                *)
(***************************************************************************)
EXTENDS Integers, Sequences, FiniteSets, TLC

VARIABLES
    symbols,            \* PriceService.symbols (list of tickers)
    disk,               \* the file CACHE_FILE
    fundamental_cache,  \* PriceService.fundamental_cache
    live_prices,        \* PriceService.live_prices
    running,            \* PriceService.running
    fpc,                \* position of the _fundamental_loop thread
    fidx,               \* index of the symbol the refresh cycle is at
    fbatch,             \* history_data of the cycle in progress
    cycles,             \* number of refresh cycles begun
    reconnect_attempts, \* PriceService.reconnect_attempts
    consecutive_failures, \* PriceService.consecutive_failures
    last_429_set,       \* PriceService.last_429_time is not None
    ws_connected,       \* PriceService.ws_connected
    wpc,                \* position of the _upstream_websocket_loop task
    widx,               \* index of the next subscribe message
    subscribed,         \* symbols a subscribe message was sent for on
                        \* this connection, in the order sent
    since_429,          \* seconds since the last 429 was observed (-1: never)
    last_failure,       \* kind of the failure the loop last handled
    waited,             \* [cooldown, backoff] seconds slept before this attempt
    ordinary_since_ok,  \* ordinary failures since the last successful connect
    limited_since_ok,   \* rate-limit failures since the last successful connect
    msgs,               \* number of inbound messages received
    active_connections, \* ConnectionManager.active_connections
    health,             \* subscriber -> "new" | "ok" | "dead" | "hung" | "closed"
    inbox,              \* subscriber -> sequence of broadcast ids received
    attempts,           \* subscriber -> send attempts of the broadcast in flight
    bsnap,              \* list(self.active_connections) of the broadcast in flight
    bidx,               \* index into bsnap of the next send
    bmsg,               \* message of the broadcast in flight (or last one)
    dropped_at,         \* subscriber -> id of the broadcast whose send to it
                        \* raised (0: none)
    done,               \* symbol -> how this refresh cycle dealt with it
    last_saved,         \* the map the last successful _save_cache wrote
    last_good,          \* the map of the last save that succeeded, kept
                        \* through later saves that fail
    last_frame,         \* the inbound frame handled last
    restarts,           \* number of times the process was started again
    probe               \* a call of a pure method: arguments and result

vars == <<symbols, disk, fundamental_cache, live_prices, running, fpc, fidx,
          fbatch, cycles, reconnect_attempts, consecutive_failures,
          last_429_set, ws_connected, wpc, widx, since_429, last_failure,
          waited, ordinary_since_ok, limited_since_ok, msgs,
          active_connections, health, inbox, attempts, bsnap, bidx, bmsg,
          dropped_at, done, last_saved, last_good, subscribed, last_frame,
          restarts, probe>>

fundVars == <<disk, fundamental_cache, fpc, fidx, fbatch, cycles, done,
              last_saved, last_good>>
\* what only a restart or a probed call writes
procVars == <<restarts, probe>>
wsVars == <<reconnect_attempts, consecutive_failures, last_429_set,
            ws_connected, wpc, widx, subscribed, since_429, last_failure,
            waited,
            ordinary_since_ok, limited_since_ok>>
fanVars == <<active_connections, health, inbox, attempts, bsnap, bidx,
             bmsg, dropped_at>>
\* what the refresher thread never writes
notFund == <<symbols, live_prices, running, msgs, last_frame, wsVars,
             fanVars, procVars>>

----------------------------------------------------------------------------
(* Bounds of the model *)

MaxCycles == 1        \* refresh cycles explored
MaxMsgs == 2          \* inbound upstream messages explored
MaxSubs == 3          \* frontend clients that may connect
MaxRestarts == 1      \* times the process is started again
MaxSamples == 16      \* longest close series handed to the oscillator

----------------------------------------------------------------------------
(* Optional values and Python truthiness *)

None == [k |-> "none", v |-> 0]
NaN == [k |-> "nan", v |-> 0]
Num(n) == [k |-> "num", v |-> n]

\* bool(x) for x in None, a float, NaN: None and 0.0 are falsy, NaN is truthy
Truthy(x) == \/ x.k = "nan"
             \/ x.k = "num" /\ x.v # 0

Min(a, b) == IF a <= b THEN a ELSE b

\* the integer nearest to num/den (den > 0), ties to the even neighbour
RoundHalfEven(num, den) ==
    LET q == num \div den
        r == num % den
    IN  IF 2 * r < den THEN q
        ELSE IF 2 * r > den THEN q + 1
        ELSE IF q % 2 = 0 THEN q ELSE q + 1

Abs(n) == IF n < 0 THEN -n ELSE n

\* round(num/den, 0 decimals of the target unit) for either sign of den
RoundRatio(num, den) ==
    IF den > 0 THEN RoundHalfEven(num, den) ELSE RoundHalfEven(-num, -den)

----------------------------------------------------------------------------
(* The universe and the data the upstream providers may return *)

\* the tickers of the universe file in the order read (lines 83-86): a
\* stock may be listed under more than one sector
UniverseTickers == <<"AAA", "BBB", "AAA">>

\* _load_symbols (lines 73-90): list(set(tickers)), each ticker once
RECURSIVE load_symbols(_)
load_symbols(tickers) ==
    IF tickers = << >> THEN << >>
    ELSE LET rest == load_symbols(SubSeq(tickers, 1, Len(tickers) - 1))
             last == tickers[Len(tickers)]
         IN  IF \E i \in 1..Len(rest) : rest[i] = last
             THEN rest ELSE Append(rest, last)

\* self.symbols when the universe file was read
Universe == load_symbols(UniverseTickers)
Symbols == {Universe[i] : i \in 1..Len(Universe)}

HistEmpty == << >>
HistShort == <<99000, 100000>>
\* 15 daily closes, ups and downs, last close 101.000
HistLong == <<100000, 101000, 100500, 101500, 102000, 101000, 100000, 100500,
              101000, 102000, 103000, 102500, 102000, 101500, 101000>>
\* 14 daily closes, never falling
HistRising == <<100000, 100100, 100200, 100300, 100400, 100500, 100600,
                100700, 100800, 100900, 101000, 101100, 101200, 101300>>


\* what yf.download may return for the universe: symbol -> closes; a symbol
\* missing from the frame reads as an empty frame (line 258)
BatchOutcomes ==
    { [s \in Symbols |-> IF s = "AAA" THEN HistLong ELSE HistShort],
      [s \in Symbols |-> IF s = "AAA" THEN HistRising ELSE HistEmpty],
      [s \in Symbols |-> HistEmpty] }

\* what the per-symbol metrics fetch (fast_info, info) may yield; ok = FALSE
\* is the except branch at line 299, a None is a key info.get did not find
MetricFetches ==
    { [ok |-> FALSE, prev_close |-> None, beta |-> None],
      [ok |-> TRUE, prev_close |-> Num(100000), beta |-> Num(12)],
      [ok |-> TRUE, prev_close |-> None, beta |-> None],
      [ok |-> TRUE, prev_close |-> Num(0), beta |-> Num(12)],
      [ok |-> TRUE, prev_close |-> Num(3000), beta |-> None] }

\* a trade of an inbound message; bad = TRUE is an entry without "s"/"p"
Trade(s, p) == [s |-> s, p |-> p, bad |-> FALSE]
BadTrade == [s |-> "AAA", p |-> 0, bad |-> TRUE]

\* the "data" lists of the inbound trade messages explored
InboundTrades ==
    { <<Trade("AAA", 105000)>>,
      <<Trade("AAA", 3010), Trade("BBB", 105004)>>,
      <<Trade("BBB", 0)>>,
      <<Trade("BBB", 3010), BadTrade>> }

----------------------------------------------------------------------------
(* Fundamentals records *)

NoConstants == [prev_close |-> None, beta |-> None, rsi |-> None,
                sector |-> "Unknown"]

\* a symbol that is no key of fundamental_cache
NoRecord == [present |-> FALSE, history |-> HistEmpty,
             constants |-> NoConstants]

EmptyCache == [s \in Symbols |-> NoRecord]

\* ConstGet without the default for a missing key
ConstGetNoDefault(rec, field, default) == rec.constants[field]

\* constants.get(field, default) on cache.get("constants", {})
ConstGet(rec, field, default) ==
    IF rec.present THEN rec.constants[field] ELSE default

----------------------------------------------------------------------------
(* Durable cache store *)

\* The pickle of a cache: one entry per key of the dict, each with the
\* two keys of its record.  A symbol that is no key has no entry.
EmptyBlob == [s \in {} |-> 0]

\* a pickle that leaves the price history out
pickle_dumpNoHistory(cache) ==
    [s \in {t \in Symbols : cache[t].present} |->
        [history |-> HistEmpty, constants |-> cache[s].constants]]

\* pickle.dump(self.fundamental_cache, f) (line 105)
pickle_dump(cache) ==
    [s \in {t \in Symbols : cache[t].present} |->
        [history |-> cache[s].history, constants |-> cache[s].constants]]

\* pickle.load(f) on a well-formed blob (line 97)
pickle_load(blob) ==
    [s \in Symbols |->
        IF s \in DOMAIN blob
        THEN [present |-> TRUE, history |-> blob[s].history,
              constants |-> blob[s].constants]
        ELSE NoRecord]

\* what is left of a blob whose write stopped part-way: the entries
\* written before the failure
Truncated(blob) == [s \in DOMAIN blob \cap {Universe[1]} |-> blob[s]]

NoFile == [state |-> "absent", blob |-> EmptyBlob]
CorruptFile == [state |-> "corrupt", blob |-> EmptyBlob]
FileOf(m) == [state |-> "ok", blob |-> pickle_dump(m)]

\* a loader that reads what it can of a damaged file
load_cacheLenient(file) ==
    IF file.state = "absent" THEN EmptyCache ELSE pickle_load(file.blob)

\* _load_cache (lines 92-100): {} when the file does not exist or when
\* open / pickle.load raised
load_cache(file) ==
    IF file.state = "ok" THEN pickle_load(file.blob) ELSE EmptyCache

\* outcome "ok": the blob is written; "open_failed": open() raised and the
\* file is as it was; "dump_failed": open(.., "wb") truncated the file and
\* pickle.dump raised part-way
save_cache(file, cache, outcome) ==
    CASE outcome = "ok" -> FileOf(cache)
      [] outcome = "open_failed" -> file
      [] outcome = "dump_failed" ->
            [state |-> "corrupt", blob |-> Truncated(pickle_dump(cache))]

SaveOutcomes == {"ok", "open_failed", "dump_failed"}

----------------------------------------------------------------------------
(* Oscillator calculator *)

RSI_WINDOW == 14

\* delta.where(delta > 0, 0)[i]: the first delta is NaN and becomes 0
Gain(c, i) == IF i > 1 /\ c[i] - c[i-1] > 0 THEN c[i] - c[i-1] ELSE 0
\* -delta.where(delta < 0, 0)[i]
Loss(c, i) == IF i > 1 /\ c[i] - c[i-1] < 0 THEN c[i-1] - c[i] ELSE 0

RECURSIVE SumGain(_, _, _)
SumGain(c, lo, hi) ==
    IF lo > hi THEN 0 ELSE Gain(c, hi) + SumGain(c, lo, hi - 1)

RECURSIVE SumLoss(_, _, _)
SumLoss(c, lo, hi) ==
    IF lo > hi THEN 0 ELSE Loss(c, hi) + SumLoss(c, lo, hi - 1)

\* _calculate_rsi: [k, n, d] with k = "none" (None), "nan", or "num" and
\* the value n/d.  rolling(window=14) has no value before 14 samples.
calculate_rsi(history, current_price) ==
    IF history = HistEmpty THEN [k |-> "none", n |-> 0, d |-> 1]
    ELSE
      LET closes == IF Truthy(current_price)
                    THEN Append(history, current_price.v) ELSE history
          len == Len(closes)
          sg == SumGain(closes, len - RSI_WINDOW + 1, len)
          sl == SumLoss(closes, len - RSI_WINDOW + 1, len)
      IN  IF len < RSI_WINDOW THEN [k |-> "nan", n |-> 0, d |-> 1]
          ELSE IF sl = 0 /\ sg = 0 THEN [k |-> "nan", n |-> 0, d |-> 1]
          ELSE IF sl = 0 THEN [k |-> "num", n |-> 100, d |-> 1]
          ELSE [k |-> "num", n |-> 100 * sg, d |-> sg + sl]

\* round(rsi_val, 2) if rsi_val else None  (line 336)
StoredRsi(r) ==
    CASE r.k = "none" -> None
      [] r.k = "nan" -> NaN
      [] r.k = "num" -> IF r.n = 0 THEN None
                        ELSE Num(RoundHalfEven(100 * r.n, r.d))

\* a store that updates the record in place and, at this point, has
\* written the constants but not yet the history
StoreRecordInPlace(old, hist, m) ==
    [present |-> TRUE,
     history |-> old.history,
     constants |-> [prev_close |-> m.prev_close,
                    beta |-> m.beta,
                    rsi |-> StoredRsi(calculate_rsi(hist, m.prev_close)),
                    sector |-> "Unknown"]]

\* the record a refresh cycle stores for a symbol (lines 308-338): built
\* from this cycle's history and metrics alone; the record it replaces
\* (old) is not read
StoreRecord(old, hist, m) ==
    [present |-> TRUE,
     history |-> hist,
     constants |-> [prev_close |-> m.prev_close,
                    beta |-> m.beta,
                    rsi |-> StoredRsi(calculate_rsi(hist, m.prev_close)),
                    sector |-> "Unknown"]]

\* a cache written by an earlier run of the service
WarmCache ==
    [s \in Symbols |->
        IF s = "AAA"
        THEN StoreRecord(NoRecord, HistLong,
                         [ok |-> TRUE, prev_close |-> Num(100000),
                          beta |-> Num(12)])
        ELSE NoRecord]

\* what CACHE_FILE may hold when the service is constructed
InitialFiles == {NoFile, CorruptFile, FileOf(WarmCache)}

----------------------------------------------------------------------------
(* Snapshot composer *)

\* price of get_snapshot (lines 384-386)
SnapshotPrice(rec, live) ==
    IF Truthy(live) THEN live ELSE ConstGet(rec, "prev_close", Num(0))

\* ComposeQuote with the percentage taken relative to the price
ComposeQuoteOverPrice(sym, rec, live) ==
    LET price == SnapshotPrice(rec, live)
        prev_close == ConstGet(rec, "prev_close", Num(0))
        moved == Truthy(prev_close) /\ Truthy(price)
        change == IF moved THEN price.v - prev_close.v ELSE 0
    IN  [symbol |-> sym,
         name |-> sym,
         price |-> price,
         change |-> RoundHalfEven(change, 10),
         change_percent |-> IF moved
                            THEN RoundRatio(change * 10000, price.v)
                            ELSE 0,
         sector |-> ConstGet(rec, "sector", "Unknown"),
         beta |-> ConstGet(rec, "beta", None),
         rsi |-> ConstGet(rec, "rsi", None)]

\* one entry of get_snapshot's response (lines 381-424)
ComposeQuote(sym, rec, live) ==
    LET price == SnapshotPrice(rec, live)
        prev_close == ConstGet(rec, "prev_close", Num(0))
        moved == Truthy(prev_close) /\ Truthy(price)
        change == IF moved THEN price.v - prev_close.v ELSE 0
    IN  [symbol |-> sym,
         name |-> sym,
         price |-> price,
         change |-> RoundHalfEven(change, 10),
         change_percent |-> IF moved
                            THEN RoundRatio(change * 10000, prev_close.v)
                            ELSE 0,
         sector |-> ConstGet(rec, "sector", "Unknown"),
         beta |-> ConstGet(rec, "beta", None),
         rsi |-> ConstGet(rec, "rsi", None)]

Range(seq) == {seq[i] : i \in 1..Len(seq)}

\* get_snapshot(requested_symbols): a dict keyed by the requested symbols
get_snapshot(cache, live, requested_symbols) ==
    [sym \in Range(requested_symbols) |->
        ComposeQuote(sym, cache[sym], live[sym])]

\* the requests explored
Requests == {<<"AAA">>, <<"BBB", "AAA", "BBB">>}


----------------------------------------------------------------------------
(* Bookkeeping of the model *)

\* no successful _save_cache since the file was last damaged or replaced
NotSaved == [ok |-> FALSE, map |-> EmptyCache]
\* the save an earlier run made: a well-formed file is what a successful
\* _save_cache of the map it holds left behind
SavedBefore(file) ==
    IF file.state = "ok"
    THEN [ok |-> TRUE, map |-> pickle_load(file.blob)]
    ELSE NotSaved
\* no symbol dealt with yet in this cycle
NotDone == [s \in Symbols |-> "none"]
\* no inbound frame handled yet
NoFrame == [kind |-> "none", data |-> << >>]
\* no probed call
NoProbe == [fn |-> "none", state |-> "idle",
            history |-> << >>, current_price |-> None,
            bars |-> << >>, timeframe |-> "1M", now |-> 0,
            rsi |-> [k |-> "none", n |-> 0, d |-> 1],
            chart |-> << >>]

----------------------------------------------------------------------------
(* Construction *)

\* PriceService.__init__ (lines 48-71) and ConnectionManager.__init__
InitWith(files, universes) ==
    /\ symbols \in universes
    /\ disk \in files
    /\ fundamental_cache = load_cache(disk)
    /\ live_prices = [s \in Symbols |-> None]
    /\ running = FALSE
    /\ fpc = "idle" /\ fidx = 1 /\ fbatch = [s \in Symbols |-> HistEmpty]
    /\ cycles = 0
    /\ reconnect_attempts = 0
    /\ consecutive_failures = 0
    /\ last_429_set = FALSE
    /\ ws_connected = FALSE
    /\ wpc = "idle" /\ widx = 1
    /\ since_429 = -1
    /\ last_failure = "none"
    /\ waited = [cooldown |-> 0, backoff |-> 0]
    /\ ordinary_since_ok = 0
    /\ limited_since_ok = 0
    /\ msgs = 0
    /\ active_connections = << >>
    /\ health = [c \in 1..MaxSubs |-> "new"]
    /\ inbox = [c \in 1..MaxSubs |-> << >>]
    /\ attempts = [c \in 1..MaxSubs |-> 0]
    /\ bsnap = << >> /\ bidx = 1
    /\ bmsg = [id |-> 0, data |-> [s \in {} |-> 0]]
    /\ dropped_at = [c \in 1..MaxSubs |-> 0]
    /\ done = NotDone
    /\ last_saved = NotSaved
    /\ last_good = SavedBefore(disk)
    /\ subscribed = << >>
    /\ last_frame = NoFrame
    /\ restarts = 0

Init == InitWith(InitialFiles, {Universe, << >>}) /\ probe = NoProbe

----------------------------------------------------------------------------
(* Batch fundamentals refresher: _fundamental_loop (lines 233-351) *)

\* loop top with an empty universe: time.sleep(10); continue
RefreshIdle ==
    /\ running /\ fpc = "top" /\ symbols = << >>
    /\ fpc' = "sleep"
    /\ UNCHANGED <<disk, fundamental_cache, fidx, fbatch, cycles, done,
                   last_saved, last_good>>
    /\ UNCHANGED notFund

\* yf.download returned history_data
RefreshBegin ==
    /\ running /\ fpc = "top" /\ symbols # << >>
    /\ cycles < MaxCycles
    /\ \E b \in BatchOutcomes : fbatch' = b
    /\ fidx' = 1
    /\ fpc' = "symbols"
    /\ cycles' = cycles + 1
    /\ UNCHANGED <<disk, fundamental_cache, done, last_saved, last_good>>
    /\ UNCHANGED notFund

\* yf.download raised: "Global fetch failed", time.sleep(60); the cycle
\* ends without _save_cache
RefreshBatchFailed ==
    /\ running /\ fpc = "top" /\ symbols # << >>
    /\ cycles < MaxCycles
    /\ fpc' = "sleep"
    /\ cycles' = cycles + 1
    /\ UNCHANGED <<disk, fundamental_cache, fidx, fbatch, done, last_saved,
                   last_good>>
    /\ UNCHANGED notFund

AfterSymbol(i) == IF i = Len(symbols) THEN "save" ELSE "symbols"

\* one iteration of "for sym in self.symbols" that stores a record
RefreshSymbol ==
    /\ fpc = "symbols"
    /\ \E m \in MetricFetches :
         /\ fundamental_cache' =
               [fundamental_cache EXCEPT ![symbols[fidx]] =
                   StoreRecord(fundamental_cache[symbols[fidx]],
                               fbatch[symbols[fidx]], m)]
         /\ done' = [done EXCEPT ![symbols[fidx]] =
                        IF m.ok THEN "stored" ELSE "metrics_failed"]
    /\ fidx' = fidx + 1
    /\ fpc' = AfterSymbol(fidx)
    /\ UNCHANGED <<disk, fbatch, cycles, last_saved, last_good>>
    /\ UNCHANGED notFund

\* one iteration that raised before the store (line 342: "Failed to
\* process"): the symbol's record is left as it was
RefreshSymbolError ==
    /\ fpc = "symbols"
    /\ done' = [done EXCEPT ![symbols[fidx]] = "raised"]
    /\ fidx' = fidx + 1
    /\ fpc' = AfterSymbol(fidx)
    /\ UNCHANGED <<disk, fundamental_cache, fbatch, cycles, last_saved,
                   last_good>>
    /\ UNCHANGED notFund

\* self._save_cache() at the end of the cycle, then time.sleep(3600);
\* history_data and the loop index are not read again
RefreshSave ==
    /\ fpc = "save"
    /\ \E o \in SaveOutcomes :
         /\ disk' = save_cache(disk, fundamental_cache, o)
         /\ last_saved' =
               CASE o = "ok" -> [ok |-> TRUE, map |-> fundamental_cache]
                 [] o = "open_failed" -> last_saved
                 [] o = "dump_failed" -> NotSaved
         /\ last_good' =
               IF o = "ok" THEN [ok |-> TRUE, map |-> fundamental_cache]
               ELSE last_good
    /\ done' = NotDone
    /\ fpc' = "sleep"
    /\ fidx' = 1
    /\ fbatch' = [s \in Symbols |-> HistEmpty]
    /\ UNCHANGED <<fundamental_cache, cycles>>
    /\ UNCHANGED notFund

\* the sleep ends; "while self.running" is evaluated again
RefreshWake ==
    /\ fpc = "sleep"
    /\ fpc' = IF running THEN "top" ELSE "stopped"
    /\ UNCHANGED <<disk, fundamental_cache, fidx, fbatch, cycles, done,
                   last_saved, last_good>>
    /\ UNCHANGED notFund


----------------------------------------------------------------------------
(* Fan-out manager: ConnectionManager (lines 20-44) *)

Subscribers == 1..MaxSubs

\* list.remove(ws): the first occurrence goes
RemoveFirst(list, ws) ==
    LET i == CHOOSE i \in 1..Len(list) :
                 list[i] = ws /\ \A j \in 1..(i-1) : list[j] # ws
    IN  SubSeq(list, 1, i - 1) \o SubSeq(list, i + 1, Len(list))

\* disconnect that leaves the list as it is
disconnectNothing(list, ws) == list

\* disconnect by the position the handle had when it connected
disconnectAtIndex(list, ws) ==
    IF ws <= Len(list)
    THEN SubSeq(list, 1, ws - 1) \o SubSeq(list, ws + 1, Len(list))
    ELSE list

\* ConnectionManager.disconnect (lines 31-34)
disconnect(list, ws) ==
    IF ws \in Range(list) THEN RemoveFirst(list, ws) ELSE list

\* the connections broadcast iterates: list(self.active_connections)
BroadcastTargets(list) == list

\* what the web task and the clients never write
notClient == <<symbols, live_prices, running, msgs, last_frame, fundVars,
               wsVars, procVars, inbox, attempts, bsnap, bidx, bmsg,
               dropped_at>>

\* websocket_endpoint: a client connects; ConnectionManager.connect.
\* Clients are numbered in the order they connect.
ClientConnect ==
    \E c \in Subscribers :
       /\ health[c] = "new"
       /\ \A d \in 1..(c-1) : health[d] # "new"
       /\ health' = [health EXCEPT ![c] = "ok"]
       /\ active_connections' = Append(active_connections, c)
       /\ UNCHANGED notClient

\* a client's connection closes: every later send to it raises
ClientDies ==
    \E c \in Subscribers :
       /\ health[c] = "ok"
       /\ health' = [health EXCEPT ![c] = "dead"]
       /\ UNCHANGED active_connections
       /\ UNCHANGED notClient

\* a client stops reading: a send to it no longer completes
ClientHangs ==
    \E c \in Subscribers :
       /\ health[c] = "ok"
       /\ health' = [health EXCEPT ![c] = "hung"]
       /\ UNCHANGED active_connections
       /\ UNCHANGED notClient

\* websocket_endpoint: receive_text raised for a closed client, the
\* handler calls manager.disconnect and ends (main.py lines 90-94)
EndpointDisconnect ==
    \E c \in Subscribers :
       /\ health[c] = "dead"
       /\ health' = [health EXCEPT ![c] = "closed"]
       /\ active_connections' = disconnect(active_connections, c)
       /\ UNCHANGED notClient

----------------------------------------------------------------------------
(* Live tick ingestor: _upstream_websocket_loop (lines 120-222) *)

max_reconnect_attempts == 10
base_delay == 5
max_delay == 300
RATE_LIMIT_COOLDOWN == 120
RATE_LIMIT_BUMP == 5

\* the clock since_429 saturates here
ClockCap == RATE_LIMIT_COOLDOWN + max_delay

RECURSIVE Pow2(_)
Pow2(n) == IF n = 0 THEN 1 ELSE 2 * Pow2(n - 1)

\* a backoff that grows linearly
BackoffDelayLinear(attempts_) == Min(base_delay * 2 * attempts_, max_delay)

\* delay = min(self.base_delay * (2 ** self.reconnect_attempts), self.max_delay)
BackoffDelay(attempts_) == Min(base_delay * Pow2(attempts_), max_delay)

Advance(t, d) == IF t < 0 THEN t ELSE Min(t + d, ClockCap)

\* seconds that may pass between datetime.now() at line 206 and at line 130
Lags == {0, 1}

\* LoopEntry without the rate-limit check
LoopEntryNoCooldown(run, l429, since, attempts_) ==
    IF ~run THEN "stopped"
    ELSE IF attempts_ > 0 THEN "backoff_sleep"
    ELSE "connecting"

\* where the loop goes from "while self.running" (lines 124-145)
LoopEntry(run, l429, since, attempts_) ==
    IF ~run THEN "stopped"
    ELSE IF l429 /\ since < RATE_LIMIT_COOLDOWN THEN "cooldown_sleep"
    ELSE IF attempts_ > 0 THEN "backoff_sleep"
    ELSE "connecting"

\* a bump without the ceiling
BumpAttemptsNoCeiling(attempts_, kind) ==
    IF kind = "rate_limit" THEN attempts_ + RATE_LIMIT_BUMP ELSE attempts_ + 1

\* reconnect_attempts after a failure of the given kind (lines 207, 214)
BumpAttempts(attempts_, kind) ==
    IF kind = "rate_limit"
    THEN Min(attempts_ + RATE_LIMIT_BUMP, max_reconnect_attempts)
    ELSE Min(attempts_ + 1, max_reconnect_attempts)

\* a ceiling test that is off by one
GivesUpLate(failures) == failures > max_reconnect_attempts

\* "if self.consecutive_failures >= self.max_reconnect_attempts: break"
GivesUp(failures) == failures >= max_reconnect_attempts

FailureKinds == {"ordinary", "rate_limit"}

\* what the ingestor task never writes
notWs == <<symbols, fundVars, procVars>>

\* start() (lines 109-118): the flag, the refresher thread, the ws task;
\* called once, by the startup event of main.py
Start ==
    /\ ~running
    /\ fpc = "idle" /\ wpc = "idle"
    /\ running' = TRUE
    /\ fpc' = "top"
    /\ wpc' = LoopEntry(TRUE, last_429_set, since_429, reconnect_attempts)
    /\ UNCHANGED <<symbols, disk, fundamental_cache, fidx, fbatch, cycles,
                   done, last_saved, last_good, procVars,
                   live_prices, msgs, last_frame, reconnect_attempts,
                   consecutive_failures, last_429_set, ws_connected, widx,
                   subscribed,
                   since_429, last_failure, waited, ordinary_since_ok,
                   limited_since_ok>>
    /\ UNCHANGED fanVars

\* the except branch (lines 195-222) for an exception whose text does
\* (kind = "rate_limit") or does not (kind = "ordinary") contain "429"
HandleFailure(kind) ==
    /\ ws_connected' = FALSE
    /\ consecutive_failures' = consecutive_failures + 1
    /\ ordinary_since_ok' =
          ordinary_since_ok + (IF kind = "ordinary" THEN 1 ELSE 0)
    /\ limited_since_ok' =
          limited_since_ok + (IF kind = "rate_limit" THEN 1 ELSE 0)
    /\ last_failure' = kind
    /\ reconnect_attempts' = BumpAttempts(reconnect_attempts, kind)
    /\ IF kind = "rate_limit"
       THEN /\ last_429_set' = TRUE
            /\ \E lag \in Lags : since_429' = lag
       ELSE UNCHANGED <<last_429_set, since_429>>
    /\ waited' = [cooldown |-> 0, backoff |-> 0]
    /\ wpc' = IF GivesUp(consecutive_failures')
              THEN "gave_up"
              ELSE LoopEntry(running, last_429_set', since_429',
                             reconnect_attempts')
    /\ UNCHANGED <<widx, subscribed, live_prices, running, msgs, last_frame>>
    /\ UNCHANGED notWs
    /\ UNCHANGED fanVars

\* await asyncio.sleep(wait_time); self.last_429_time = None (lines 131-135)
CooldownSleep ==
    /\ wpc = "cooldown_sleep"
    /\ LET wait_time == RATE_LIMIT_COOLDOWN - since_429
       IN  /\ since_429' = Advance(since_429, wait_time)
           /\ waited' = [waited EXCEPT !.cooldown = wait_time]
    /\ last_429_set' = FALSE
    /\ wpc' = IF reconnect_attempts > 0 THEN "backoff_sleep" ELSE "connecting"
    /\ UNCHANGED <<reconnect_attempts, consecutive_failures, ws_connected,
                   widx, last_failure, ordinary_since_ok, limited_since_ok,
                   subscribed,
                   live_prices, running, msgs, last_frame>>
    /\ UNCHANGED notWs
    /\ UNCHANGED fanVars

\* await asyncio.sleep(delay) (lines 140-143)
BackoffSleep ==
    /\ wpc = "backoff_sleep"
    /\ LET delay == BackoffDelay(reconnect_attempts)
       IN  /\ since_429' = Advance(since_429, delay)
           /\ waited' = [waited EXCEPT !.backoff = delay]
    /\ wpc' = "connecting"
    /\ UNCHANGED <<reconnect_attempts, consecutive_failures, last_429_set,
                   ws_connected, widx, last_failure, ordinary_since_ok,
                   subscribed,
                   limited_since_ok, live_prices, running, msgs,
                   last_frame>>
    /\ UNCHANGED notWs
    /\ UNCHANGED fanVars

\* websockets.connect(uri) succeeded (lines 147-151)
ConnectOk ==
    /\ wpc = "connecting"
    /\ ws_connected' = TRUE
    /\ reconnect_attempts' = 0
    /\ consecutive_failures' = 0
    /\ ordinary_since_ok' = 0
    /\ limited_since_ok' = 0
    /\ last_failure' = "none"
    /\ widx' = 1
    /\ subscribed' = << >>
    /\ wpc' = IF symbols = << >> THEN "streaming" ELSE "subscribing"
    /\ UNCHANGED <<last_429_set, since_429, waited, live_prices, running,
                   msgs, last_frame>>
    /\ UNCHANGED notWs
    /\ UNCHANGED fanVars

\* websockets.connect(uri) raised
ConnectFails ==
    /\ wpc = "connecting"
    /\ \E kind \in FailureKinds : HandleFailure(kind)

\* a loop over the symbols that stops before the last one
AfterSubscribeSkipsLast(i) ==
    IF i >= Len(symbols) - 1 THEN "streaming" ELSE "subscribing"

\* "for sym in self.symbols" (line 154): the loop ends after the last symbol
AfterSubscribe(i) ==
    IF i = Len(symbols) THEN "streaming" ELSE "subscribing"

\* one "await ws.send(subscribe)" and its 0.05 s sleep (lines 154-156)
SubscribeSend ==
    /\ wpc = "subscribing"
    /\ subscribed' = Append(subscribed, symbols[widx])
    /\ widx' = widx + 1
    /\ wpc' = AfterSubscribe(widx)
    /\ UNCHANGED <<reconnect_attempts, consecutive_failures, last_429_set,
                   ws_connected, since_429, last_failure, waited,
                   ordinary_since_ok, limited_since_ok, live_prices, running,
                   msgs, last_frame>>
    /\ UNCHANGED notWs
    /\ UNCHANGED fanVars

\* ws.send raised while subscribing
SubscribeFails ==
    /\ wpc = "subscribing"
    /\ \E kind \in FailureKinds : HandleFailure(kind)

\* the connection broke while "async for message in ws" was waiting
StreamFails ==
    /\ wpc = "streaming"
    /\ \E kind \in FailureKinds : HandleFailure(kind)

\* the server closed the connection normally: "async for" ends, no
\* exception, and the while loop starts over
StreamClosed ==
    /\ wpc = "streaming"
    /\ wpc' = LoopEntry(running, last_429_set, since_429, reconnect_attempts)
    /\ waited' = [cooldown |-> 0, backoff |-> 0]
    /\ UNCHANGED <<reconnect_attempts, consecutive_failures, last_429_set,
                   ws_connected, widx, subscribed, since_429, last_failure,
                   ordinary_since_ok, limited_since_ok, live_prices, running,
                   msgs, last_frame>>
    /\ UNCHANGED notWs
    /\ UNCHANGED fanVars


----------------------------------------------------------------------------
(* Inbound messages while streaming (lines 159-193) *)

\* _get_prev_close (lines 224-231): the last close of the cached history
get_prev_close(rec) ==
    IF rec.present /\ rec.history # HistEmpty
    THEN Num(rec.history[Len(rec.history)])
    ELSE None

\* the entry of update_batch for one trade (lines 172-184)
UpdateEntry(price, prev_close) ==
    LET known == Truthy(prev_close) /\ prev_close.v > 0
        change == IF known THEN price - prev_close.v ELSE 0
    IN  [price |-> price,
         change |-> RoundHalfEven(change, 10),
         change_percent |-> IF known
                            THEN RoundRatio(change * 10000, prev_close.v)
                            ELSE 0]

NoBatch == [s \in {} |-> 0]

\* ApplyTrades that keeps the first entry update_batch got for a symbol
RECURSIVE ApplyTradesFirstWins(_, _, _, _, _)
ApplyTradesFirstWins(cache, live, batch, data, i) ==
    IF i > Len(data) THEN [live |-> live, batch |-> batch, ok |-> TRUE]
    ELSE IF data[i].bad THEN [live |-> live, batch |-> batch, ok |-> FALSE]
    ELSE LET sym == data[i].s
             entry == UpdateEntry(data[i].p, get_prev_close(cache[sym]))
         IN  ApplyTradesFirstWins(cache,
                         [live EXCEPT ![sym] = Num(data[i].p)],
                         [s \in DOMAIN batch \cup {sym} |->
                             IF s \in DOMAIN batch THEN batch[s] ELSE entry],
                         data, i + 1)

\* "for trade in data["data"]" from entry i on: the live map and the
\* update_batch built so far; ok = FALSE when an entry raised (KeyError),
\* which ends the handling of the message at line 192
RECURSIVE ApplyTrades(_, _, _, _, _)
ApplyTrades(cache, live, batch, data, i) ==
    IF i > Len(data) THEN [live |-> live, batch |-> batch, ok |-> TRUE]
    ELSE IF data[i].bad THEN [live |-> live, batch |-> batch, ok |-> FALSE]
    ELSE LET sym == data[i].s
             entry == UpdateEntry(data[i].p, get_prev_close(cache[sym]))
         IN  ApplyTrades(cache,
                         [live EXCEPT ![sym] = Num(data[i].p)],
                         [s \in DOMAIN batch \cup {sym} |->
                             IF s = sym THEN entry ELSE batch[s]],
                         data, i + 1)

\* "if update_batch: await self.manager.broadcast(...)"
Broadcasts(r) == r.ok /\ DOMAIN r.batch # {}

\* an ingestor that hands the broadcast to a task of its own and goes on
\* reading
AwaitsFrameDetached(pc) == pc \in {"streaming", "broadcasting"}

\* the ingestor is at "async for message in ws" (line 159): it comes back
\* there only when "await self.manager.broadcast" (line 187) has returned
AwaitsFrame(pc) == pc = "streaming"

\* a trade message (for subscribed symbols) arrives and is handled up to
\* the first await of broadcast; with nobody connected broadcast returns
\* at once
RecvTrade(choices) ==
    /\ AwaitsFrame(wpc)
    /\ msgs < MaxMsgs
    /\ \E data \in choices :
         /\ \A i \in 1..Len(data) : data[i].s \in Range(symbols)
         /\ LET r == ApplyTrades(fundamental_cache, live_prices, NoBatch, data, 1)
           IN  /\ live_prices' = r.live
               /\ msgs' = msgs + 1
               /\ last_frame' = [kind |-> "trade", data |-> data]
               /\ IF Broadcasts(r)
                  THEN /\ bmsg' = [id |-> msgs + 1, data |-> r.batch]
                       /\ bsnap' = BroadcastTargets(active_connections)
                       /\ bidx' = 1
                       /\ attempts' = [c \in Subscribers |-> 0]
                       /\ wpc' = IF bsnap' = << >> THEN "streaming"
                                 ELSE "broadcasting"
                  ELSE UNCHANGED <<bmsg, bsnap, bidx, attempts, wpc>>
    /\ UNCHANGED <<reconnect_attempts, consecutive_failures, last_429_set,
                   ws_connected, widx, since_429, last_failure, waited,
                   subscribed,
                   ordinary_since_ok, limited_since_ok, running,
                   active_connections, health, inbox, dropped_at>>
    /\ UNCHANGED notWs

\* a JSON message that is no trade (a ping): data["type"] differs and
\* nothing changes
RecvOther ==
    /\ AwaitsFrame(wpc)
    /\ msgs < MaxMsgs
    /\ msgs' = msgs + 1
    /\ last_frame' = [kind |-> "other", data |-> << >>]
    /\ UNCHANGED <<live_prices, running>>
    /\ UNCHANGED wsVars
    /\ UNCHANGED notWs
    /\ UNCHANGED fanVars

\* a frame that is no JSON, or JSON without "type": json.loads or
\* data["type"] raises inside the try of line 160, line 192 logs it and
\* "async for" waits for the next message
RecvMalformed ==
    /\ AwaitsFrame(wpc)
    /\ msgs < MaxMsgs
    /\ msgs' = msgs + 1
    /\ last_frame' = [kind |-> "malformed", data |-> << >>]
    /\ UNCHANGED <<live_prices, running>>
    /\ UNCHANGED wsVars
    /\ UNCHANGED notWs
    /\ UNCHANGED fanVars

AfterSend == IF bidx = Len(bsnap) THEN "streaming" ELSE "broadcasting"

broadcastFrame == <<reconnect_attempts, consecutive_failures, last_429_set,
                    ws_connected, widx, since_429, last_failure, waited,
                    subscribed,
                    ordinary_since_ok, limited_since_ok, live_prices, running,
                    msgs, last_frame, bsnap, bmsg, health>>

\* "await connection.send_text(json_msg)" completed (line 41)
BroadcastDeliver ==
    /\ wpc = "broadcasting"
    /\ health[bsnap[bidx]] = "ok"
    /\ inbox' = [inbox EXCEPT ![bsnap[bidx]] = Append(@, bmsg.id)]
    /\ attempts' = [attempts EXCEPT ![bsnap[bidx]] = @ + 1]
    /\ bidx' = bidx + 1
    /\ wpc' = AfterSend
    /\ UNCHANGED <<active_connections, dropped_at>>
    /\ UNCHANGED broadcastFrame
    /\ UNCHANGED notWs

\* send_text raised: "except Exception", self.disconnect(connection)
BroadcastSendFails ==
    /\ wpc = "broadcasting"
    /\ health[bsnap[bidx]] \in {"dead", "closed"}
    /\ active_connections' = disconnect(active_connections, bsnap[bidx])
    /\ dropped_at' = [dropped_at EXCEPT ![bsnap[bidx]] = bmsg.id]
    /\ attempts' = [attempts EXCEPT ![bsnap[bidx]] = @ + 1]
    /\ bidx' = bidx + 1
    /\ wpc' = AfterSend
    /\ UNCHANGED inbox
    /\ UNCHANGED broadcastFrame
    /\ UNCHANGED notWs

----------------------------------------------------------------------------
(* Specifications *)

\* the trade messages explored next to the refresher
ComposeTrades ==
    { <<Trade("AAA", 105000)>>,
      <<Trade("AAA", 3010), Trade("BBB", 105004)>> }

RecvComposeTrade == RecvTrade(ComposeTrades)

\* The composing side: both feeds healthy, nobody subscribed.
Next ==
    \/ Start
    \/ RefreshIdle \/ RefreshBegin \/ RefreshBatchFailed \/ RefreshSymbol
    \/ RefreshSymbolError \/ RefreshSave \/ RefreshWake
    \/ ConnectOk \/ SubscribeSend \/ RecvComposeTrade

Spec == Init /\ [][Next]_vars


----------------------------------------------------------------------------
(* Properties of the refresher and the composer, under Spec *)

\* the quote get_snapshot returns for one symbol in the current state
QuoteNow(s) == get_snapshot(fundamental_cache, live_prices, <<s>>)[s]
QuoteNext(s) == get_snapshot(fundamental_cache', live_prices', <<s>>)[s]

MetricFields == {"prev_close", "beta"}

\* C1: stale retention.  No step replaces a cached non-null metric of a
\* symbol (prev_close, beta) by null: a field whose fetch failed or came
\* back null keeps its pre-cycle value.
C1_StaleRetention ==
    [][\A s \in Symbols : \A f \in MetricFields :
          (fundamental_cache[s].present
             /\ fundamental_cache[s].constants[f].k = "num")
          => fundamental_cache'[s].constants[f] =
                fundamental_cache[s].constants[f]
             \/ fundamental_cache'[s].constants[f].k = "num"]_vars

\* what the price-source priority asks for: live tick, else cached
\* previous close, else zero
PriorityPrice(rec, live) ==
    IF live.k = "num" THEN live
    ELSE IF rec.present /\ rec.constants.prev_close.k = "num"
         THEN rec.constants.prev_close
         ELSE Num(0)

\* C2: in every state, for every symbol, the price of get_snapshot is the
\* live tick if there is one, else the cached previous close if it is
\* known, else zero (never null).
C2_PricePriority ==
    \A s \in Symbols :
       QuoteNow(s).price = PriorityPrice(fundamental_cache[s], live_prices[s])

\* the previous close get_snapshot works from
CachedPrevClose(s) ==
    IF fundamental_cache[s].present
    THEN fundamental_cache[s].constants.prev_close ELSE None

\* C3 as stated: change and changePercent are the exact difference and
\* the exact percentage whenever the previous close is known and non-zero,
\* and both 0 otherwise.  (change is in cents, prices in mills,
\* change_percent in hundredths of a percent.)
C3_ExactChange ==
    \A s \in Symbols :
       LET q == QuoteNow(s)
           pc == CachedPrevClose(s)
       IN  IF pc.k = "num" /\ pc.v # 0
           THEN /\ q.change * 10 = q.price.v - pc.v
                /\ q.change_percent * pc.v = (q.price.v - pc.v) * 10000
           ELSE q.change = 0 /\ q.change_percent = 0

\* C3 amended: change is the difference of the returned price and the
\* previous close rounded to 2 decimals, changePercent is that difference
\* over the previous close times 100 rounded to 2 decimals, whenever the
\* previous close is known and non-zero; both are 0 otherwise.
C3_RoundedChange ==
    \A s \in Symbols :
       LET q == QuoteNow(s)
           pc == CachedPrevClose(s)
       IN  IF pc.k = "num" /\ pc.v # 0
           THEN /\ q.price.k = "num"
                /\ 2 * Abs(q.change * 10 - (q.price.v - pc.v)) <= 10
                /\ 2 * Abs(q.change_percent * pc.v
                             - (q.price.v - pc.v) * 10000) <= Abs(pc.v)
           ELSE q.change = 0 /\ q.change_percent = 0

\* previousClose = 100 and a live price of 105: change 5.00, 5.00 percent
C3_Witness ==
    /\ CachedPrevClose("AAA") = Num(100000)
    /\ live_prices["AAA"] = Num(105000)
    /\ QuoteNow("AAA").change = 500
    /\ QuoteNow("AAA").change_percent = 500

\* C4: a symbol that is no key of the fundamentals cache gets a minimal
\* quote: symbol, name = symbol, sector "Unknown", price the live tick if
\* there is one and 0 otherwise, change and changePercent 0, none of them
\* null; and a response has exactly the requested symbols as its keys.
C4_MinimalQuote ==
    /\ \A s \in Symbols :
         ~fundamental_cache[s].present =>
            LET q == QuoteNow(s)
            IN  /\ q.symbol = s /\ q.name = s /\ q.sector = "Unknown"
                /\ q.price = IF live_prices[s].k = "num"
                             THEN live_prices[s] ELSE Num(0)
                /\ q.change = 0 /\ q.change_percent = 0
    /\ \A req \in Requests :
         DOMAIN get_snapshot(fundamental_cache, live_prices, req) = Range(req)

\* a symbol never refreshed, with a live tick, quoted at that tick
C4_Witness ==
    /\ ~fundamental_cache["BBB"].present
    /\ live_prices["BBB"] = Num(105004)
    /\ QuoteNow("BBB").price = Num(105004)
    /\ cycles > 0

\* C5: when a live tick for a symbol arrives with no refresh in between,
\* the rsi of the next snapshot is the oscillator of the cached history
\* with the new live price appended.
C5_RsiFollowsTick ==
    [][\A s \in Symbols :
          (/\ fundamental_cache[s].present
           /\ fundamental_cache' = fundamental_cache
           /\ live_prices'[s] # live_prices[s])
          => QuoteNext(s).rsi =
                StoredRsi(calculate_rsi(fundamental_cache[s].history,
                                        live_prices'[s]))]_vars

\* the ways an exception can end the work on one symbol: the metrics
\* fetch raised (line 299), or something else did (line 342)
SymbolFailures == {"metrics_failed", "raised"}

\* C13: per-symbol isolation.  When a refresh cycle's work on a symbol
\* ends in an exception, the cycle goes on to the next symbol (or to the
\* save), the symbol's cached record is left as it was, and when the
\* cycle reaches the save every symbol of the universe has been dealt
\* with.
C13_PerSymbolIsolation ==
    [][/\ \A s \in Symbols :
             (done[s] = "none" /\ done'[s] \in SymbolFailures) =>
                /\ fidx' = fidx + 1
                /\ fpc' = AfterSymbol(fidx)
                /\ fundamental_cache'[s] = fundamental_cache[s]
       /\ (fpc = "symbols" /\ fpc' = "save") =>
             \A s \in Range(symbols) : done'[s] # "none"]_vars

\* the refresher is inside a cycle over a non-empty universe
InCycle == fpc \in {"top", "symbols", "save"} /\ symbols # << >>

\* C14: a refresh cycle over a non-empty universe ends (the thread goes
\* to sleep until the next cycle) only through the persist attempt, also
\* when the batch history fetch failed; and whatever the outcome of the
\* persist, the thread goes on to the sleep before the next cycle.
C14_CycleEndsWithSave ==
    [][/\ (InCycle /\ fpc' = "sleep") => fpc = "save"
       /\ (fpc = "save" /\ fpc' # "save") => (fpc' = "sleep" /\ running')
      ]_vars

----------------------------------------------------------------------------
(* The ingestor against a failing upstream: the refresher thread is not   *)
(* scheduled and nobody is subscribed.                                    *)

IngestTrades == {<<Trade("AAA", 105000)>>, <<Trade("BBB", 0)>>}

RecvIngestTrade == RecvTrade(IngestTrades)

NextIngest ==
    \/ Start
    \/ CooldownSleep \/ BackoffSleep
    \/ ConnectOk \/ ConnectFails
    \/ SubscribeSend \/ SubscribeFails
    \/ StreamFails \/ StreamClosed
    \/ RecvIngestTrade \/ RecvOther \/ RecvMalformed

SpecIngest == Init /\ [][NextIngest]_vars

\* every step the ingestor task can take
IngestorStep ==
    \/ CooldownSleep \/ BackoffSleep \/ ConnectOk \/ ConnectFails
    \/ SubscribeSend \/ SubscribeFails \/ StreamFails \/ StreamClosed
    \/ RecvTrade(InboundTrades) \/ RecvOther \/ RecvMalformed
    \/ BroadcastDeliver \/ BroadcastSendFails

\* C6: a connection attempt that no failure precedes (the first one, or
\* the one after a clean close) is made without any wait; the attempt that
\* follows n >= 1 failures since the last successful connection, all of
\* them ordinary, is preceded by a backoff wait of
\* min(base_delay * 2^n, max_delay) and by no cooldown wait.
C6_BackoffDelay ==
    wpc = "connecting" =>
       /\ (ordinary_since_ok = 0 /\ limited_since_ok = 0)
             => waited = [cooldown |-> 0, backoff |-> 0]
       /\ (ordinary_since_ok >= 1 /\ limited_since_ok = 0)
             => waited = [cooldown |-> 0,
                          backoff |-> Min(base_delay * Pow2(ordinary_since_ok),
                                          max_delay)]

\* the 4th attempt, after 3 ordinary failures, waited 40 s
C6_Witness ==
    /\ wpc = "connecting"
    /\ ordinary_since_ok = 3 /\ limited_since_ok = 0
    /\ waited.backoff = 40

\* C7: no connection attempt is under way within 120 s of an observed
\* rate-limit signal; the attempt that follows a rate-limit failure comes
\* no sooner than 120 s plus the exponential backoff delay after it.
C7_RateLimitCooldown ==
    wpc = "connecting" =>
       /\ since_429 >= 0 => since_429 >= RATE_LIMIT_COOLDOWN
       /\ last_failure = "rate_limit" =>
             /\ waited.cooldown + waited.backoff <= since_429
             /\ waited.backoff =
                   Min(base_delay * Pow2(reconnect_attempts), max_delay)
             /\ since_429 >= RATE_LIMIT_COOLDOWN + waited.backoff

\* an attempt after a 429 that was noticed one second late: 119 s of
\* cooldown, then the backoff
C7_Witness ==
    /\ wpc = "connecting"
    /\ last_failure = "rate_limit"
    /\ waited.cooldown = 119
    /\ waited.backoff = 160
    /\ since_429 = 280

\* C8: the ingestor has given up only with consecutive_failures at the
\* ceiling, after 10 failures with no successful connection in between;
\* in that state the connected flag is false, no step of the ingestor is
\* possible (no attempt, no write to live_prices), and get_snapshot
\* still quotes every symbol with a live tick at that tick.
C8_GiveUpTerminal ==
    wpc = "gave_up" =>
       /\ consecutive_failures = max_reconnect_attempts
       /\ ordinary_since_ok + limited_since_ok = max_reconnect_attempts
       /\ ~ws_connected
       /\ ~ENABLED IngestorStep
       /\ \A s \in Symbols :
             Truthy(live_prices[s]) => QuoteNow(s).price = live_prices[s]

\* gave up after having streamed: the last tick of AAA is still quoted
C8_Witness ==
    /\ wpc = "gave_up"
    /\ live_prices["AAA"] = Num(105000)
    /\ QuoteNow("AAA").price = Num(105000)

\* a frame that is no JSON, or a trade event with an entry that lacks
\* its fields
Malformed(frame) ==
    \/ frame.kind = "malformed"
    \/ /\ frame.kind = "trade"
       /\ \E i \in 1..Len(frame.data) : frame.data[i].bad

\* the positions of the loop between a failure and the next attempt
Disconnected == {"cooldown_sleep", "backoff_sleep", "connecting", "gave_up"}

\* C18: a malformed inbound frame received while streaming takes the
\* ingestor out of streaming: the connection counts as failed (flag
\* false, one more consecutive failure) and the loop is at its re-entry,
\* or has given up at the ceiling.
C18_MalformedFrameDisconnects ==
    [][(wpc = "streaming" /\ msgs' = msgs + 1 /\ Malformed(last_frame')) =>
          /\ ~ws_connected'
          /\ consecutive_failures' = consecutive_failures + 1
          /\ wpc' \in Disconnected
          /\ wpc' = "gave_up" <=> GivesUp(consecutive_failures')]_vars

\* C20: consecutive_failures and reconnect_attempts go back to 0 only in
\* the step that enters streaming; a connection that was opened but has
\* not completed its subscriptions leaves them as they were.
C20_ResetOnStreamingEntry ==
    [][(\/ consecutive_failures > 0 /\ consecutive_failures' = 0
        \/ reconnect_attempts > 0 /\ reconnect_attempts' = 0)
       => (wpc # "streaming" /\ wpc' = "streaming")]_vars


----------------------------------------------------------------------------
(* The fan-out: a healthy upstream, clients that connect, close and hang, *)
(* the refresher thread not scheduled.                                    *)

FanoutTrades == {<<Trade("AAA", 105000)>>}

RecvFanoutTrade == RecvTrade(FanoutTrades)

NextFanout ==
    \/ Start
    \/ ConnectOk \/ SubscribeSend
    \/ RecvFanoutTrade
    \/ BroadcastDeliver \/ BroadcastSendFails
    \/ ClientConnect \/ ClientDies \/ ClientHangs \/ EndpointDisconnect

SpecFanout == Init /\ [][NextFanout]_vars

\* the entries of the snapshot the broadcast in flight has dealt with
Handled == IF wpc = "broadcasting" THEN bidx - 1 ELSE Len(bsnap)
HandledSet == {bsnap[i] : i \in 1..Handled}
\* the subscribers whose send raised in the broadcast bmsg
FailedNow == {c \in Subscribers : bmsg.id > 0 /\ dropped_at[c] = bmsg.id}
Got(c, id) == id \in Range(inbox[c])

\* C9: a broadcast makes exactly one delivery attempt to each subscriber
\* of the set it started with (one per handled entry, none to others);
\* a subscriber whose delivery failed is out of the set and gets no later
\* broadcast; every other handled subscriber has received the message
\* once and is still in the set unless its own endpoint handler removed
\* it after it closed; the broadcast always runs to its end.
C9_FanoutWithFailures ==
    /\ \A c \in Subscribers :
          attempts[c] = IF c \in HandledSet THEN 1 ELSE 0
    /\ \A c \in HandledSet :
          IF c \in FailedNow
          THEN /\ c \notin Range(active_connections)
               /\ ~Got(c, bmsg.id)
          ELSE /\ Got(c, bmsg.id)
               /\ c \in Range(active_connections) \/ health[c] = "closed"
    /\ \A c \in Subscribers :
          dropped_at[c] > 0 =>
             /\ c \notin Range(active_connections)
             /\ \A id \in Range(inbox[c]) : id < dropped_at[c]
             /\ bmsg.id > dropped_at[c] => c \notin Range(bsnap)
    /\ \A c \in Range(active_connections) \ Range(bsnap) :
          wpc = "broadcasting" => ~Got(c, bmsg.id)

\* 3 subscribers, one of them closed: 2 deliveries, a set of size 2
C9_Witness ==
    /\ wpc = "streaming" /\ bmsg.id > 0
    /\ Len(bsnap) = 3
    /\ Cardinality(FailedNow) = 1
    /\ Cardinality({c \in Subscribers : Got(c, bmsg.id)}) = 2
    /\ Len(active_connections) = 2

\* the broadcast in flight waits on a send that does not complete
Blocked == wpc = "broadcasting" /\ health[bsnap[bidx]] = "hung"

\* C10: a subscriber whose delivery does not complete blocks nobody: when
\* the broadcast is at such a subscriber, every healthy subscriber of the
\* same broadcast has the message or can still be sent it, and the
\* ingestor can go on to the next inbound message.
C10_HungSubscriberBlocksNobody ==
    Blocked =>
       /\ \A c \in Range(bsnap) :
             health[c] = "ok" => Got(c, bmsg.id) \/ ENABLED BroadcastDeliver
       /\ msgs < MaxMsgs => ENABLED RecvFanoutTrade


----------------------------------------------------------------------------
(* The durable store across process starts: the refresher runs, the       *)
(* process is stopped at any point and constructed again on the file it   *)
(* left behind.  The upstream feed is not scheduled.                      *)

\* the process ends and PriceService() is constructed again (lines 48-71):
\* the universe file and CACHE_FILE are what they were, everything in
\* memory is new
Restart ==
    /\ restarts < MaxRestarts
    /\ restarts' = restarts + 1
    /\ fundamental_cache' = load_cache(disk)
    /\ live_prices' = [s \in Symbols |-> None]
    /\ running' = FALSE
    /\ fpc' = "idle" /\ fidx' = 1 /\ fbatch' = [s \in Symbols |-> HistEmpty]
    /\ done' = NotDone
    /\ reconnect_attempts' = 0
    /\ consecutive_failures' = 0
    /\ last_429_set' = FALSE
    /\ ws_connected' = FALSE
    /\ wpc' = "idle" /\ widx' = 1 /\ subscribed' = << >>
    /\ since_429' = -1
    /\ last_failure' = "none"
    /\ waited' = [cooldown |-> 0, backoff |-> 0]
    /\ ordinary_since_ok' = 0
    /\ limited_since_ok' = 0
    /\ msgs' = 0
    /\ last_frame' = NoFrame
    /\ active_connections' = << >>
    /\ health' = [c \in 1..MaxSubs |-> "new"]
    /\ inbox' = [c \in 1..MaxSubs |-> << >>]
    /\ attempts' = [c \in 1..MaxSubs |-> 0]
    /\ bsnap' = << >> /\ bidx' = 1
    /\ bmsg' = [id |-> 0, data |-> [s \in {} |-> 0]]
    /\ dropped_at' = [c \in 1..MaxSubs |-> 0]
    /\ UNCHANGED <<symbols, disk, cycles, last_saved, last_good, probe>>

NextStore ==
    \/ Start
    \/ RefreshIdle \/ RefreshBegin \/ RefreshBatchFailed \/ RefreshSymbol
    \/ RefreshSymbolError \/ RefreshSave \/ RefreshWake
    \/ Restart

SpecStore == Init /\ [][NextStore]_vars

C12_LoadNeverFails ==
    (~running /\ disk.state \in {"absent", "corrupt"}) =>
       /\ fundamental_cache = EmptyCache
       /\ ENABLED Start

\* a restart on a file whose last write stopped part-way
C12_Witness ==
    /\ restarts > 0 /\ ~running
    /\ disk.state = "corrupt" /\ disk.blob # EmptyBlob
    /\ fundamental_cache = EmptyCache

----------------------------------------------------------------------------
(* Chart history: get_chart_data (lines 428-473) *)

\* Time is counted in half days so that an instant has a time of day:
\* a daily bar is stamped at midnight of its date.
TicksPerDay == 2
Midnight(date) == date * TicksPerDay

Timeframes == {"1D", "1W", "1M", "3M", "1Y", "5Y"}

\* timeframe_days.get(timeframe, 30)
timeframe_days(timeframe) ==
    CASE timeframe = "1D" -> 1
      [] timeframe = "1W" -> 7
      [] timeframe = "1M" -> 30
      [] timeframe = "3M" -> 90
      [] timeframe = "1Y" -> 365
      [] timeframe = "5Y" -> 1825
      [] OTHER -> 30

\* a cutoff of whole weeks of five days
cutoff_dateTradingDays(now, timeframe) ==
    now - ((timeframe_days(timeframe) * 5) \div 7) * TicksPerDay

\* cutoff_date = today - timedelta(days=days), today being the instant of
\* the call (pd.Timestamp.today())
cutoff_date(now, timeframe) == now - timeframe_days(timeframe) * TicksPerDay

\* int(row.get("Volume", 0)) raises ValueError on a NaN volume
RowRaises(bar) == bar.volume.k # "num"

\* one entry of result (lines 460-468): prices rounded to 2 decimals
ChartRow(bar) ==
    [date |-> bar.date,
     timestamp |-> Midnight(bar.date),
     open |-> RoundHalfEven(bar.open, 10),
     high |-> RoundHalfEven(bar.high, 10),
     low |-> RoundHalfEven(bar.low, 10),
     close |-> RoundHalfEven(bar.close, 10),
     volume |-> bar.volume.v]

\* get_chart_data on the cached history of the symbol (<< >> when the
\* symbol has none) at the instant now; an exception in the body is
\* caught at line 471 and [] is returned
get_chart_data(history, timeframe, now) ==
    IF history = << >> THEN << >>
    ELSE LET InWindow(bar) ==
                 Midnight(bar.date) >= cutoff_date(now, timeframe)
             filtered == SelectSeq(history, InWindow)
         IN  IF \E i \in 1..Len(filtered) : RowRaises(filtered[i])
             THEN << >>
             ELSE [i \in 1..Len(filtered) |-> ChartRow(filtered[i])]

----------------------------------------------------------------------------
(* The pure methods called on given arguments: _calculate_rsi and         *)
(* get_chart_data.  Nothing else of the service runs.                     *)

\* close series of up to MaxSamples closes: flat, rising, falling, and
\* the mixed 15 closes of HistLong
SeriesFlat == [i \in 1..MaxSamples |-> 100000]
SeriesRising == [i \in 1..MaxSamples |-> 100000 + 100 * i]
SeriesFalling == [i \in 1..MaxSamples |-> 100000 - 100 * i]
SeriesBases == {SeriesFlat, SeriesRising, SeriesFalling, HistLong}
ProbeHistories ==
    {SubSeq(b, 1, Min(n, Len(b))) : b \in SeriesBases, n \in 0..MaxSamples}
ProbePrices == {None, Num(0), Num(100000), Num(102000)}

\* the day of the call and the cached daily bars, by their age in days
Today == 2000
BarAges == <<2000, 400, 100, 31, 30, 29, 8, 7, 6, 1, 0>>
Bar(age, volume) ==
    [date |-> Today - age,
     open |-> 100000 + 7 * age,
     high |-> 100009 + 7 * age,
     low |-> 99995 + 7 * age,
     close |-> 100004 + 7 * age,
     volume |-> volume]
\* every bar traded
BarsTraded == [i \in 1..Len(BarAges) |-> Bar(BarAges[i], Num(1000 + i))]
\* the frame of a multi-ticker download: the rows of days on which this
\* ticker did not trade are NaN
BarsWithGaps ==
    [i \in 1..Len(BarAges) |->
        Bar(BarAges[i], IF BarAges[i] \in {400, 30, 8} THEN NaN
                        ELSE Num(1000 + i))]
ProbeBars ==
    {SubSeq(b, i, j) : b \in {BarsTraded, BarsWithGaps},
                       i \in 1..Len(BarAges), j \in 0..Len(BarAges)}
ProbeTimeframes == Timeframes \cup {"2Y"}
ProbeInstants == {Midnight(Today), Midnight(Today) + 1}

RsiCalls ==
    {[NoProbe EXCEPT !.fn = "rsi", !.state = "call",
                     !.history = h, !.current_price = p] :
        h \in ProbeHistories, p \in ProbePrices}
ChartCalls ==
    {[NoProbe EXCEPT !.fn = "chart", !.state = "call",
                     !.bars = b, !.timeframe = tf, !.now = t] :
        b \in ProbeBars, tf \in ProbeTimeframes, t \in ProbeInstants}

InitCalc ==
    /\ InitWith({NoFile}, {Universe})
    /\ probe \in RsiCalls \cup ChartCalls

\* what a probed call never writes
notProbe == <<symbols, live_prices, running, msgs, last_frame, restarts,
              fundVars, wsVars, fanVars>>

\* self._calculate_rsi(history, current_price) returns
CalculateRsi ==
    /\ probe.fn = "rsi" /\ probe.state = "call"
    /\ probe' = [probe EXCEPT
                   !.state = "ret",
                   !.rsi = calculate_rsi(probe.history, probe.current_price)]
    /\ UNCHANGED notProbe

\* self.get_chart_data(symbol, timeframe) returns
GetChartData ==
    /\ probe.fn = "chart" /\ probe.state = "call"
    /\ probe' = [probe EXCEPT
                   !.state = "ret",
                   !.chart = get_chart_data(probe.bars, probe.timeframe,
                                            probe.now)]
    /\ UNCHANGED notProbe

NextCalc == CalculateRsi \/ GetChartData

SpecCalc == InitCalc /\ [][NextCalc]_vars

RsiReturned == probe.fn = "rsi" /\ probe.state = "ret"
ChartReturned == probe.fn = "chart" /\ probe.state = "ret"

\* the samples of a call: the closes, and the current price as the most
\* recent one when one is given (None and 0 are no price)
PriceGiven == probe.current_price.k = "num" /\ probe.current_price.v # 0
ProbeCloses ==
    IF PriceGiven THEN Append(probe.history, probe.current_price.v)
    ELSE probe.history
ProbeSamples == Len(ProbeCloses)

\* samples needed for 14 moves
MinSamples == RSI_WINDOW + 1

\* C15: oscillator availability.  _calculate_rsi yields no numeric value
\* (None or NaN) when fewer than 15 samples exist after appending, the
\* empty series and exactly 14 samples included, and a numeric value when
\* 15 or more exist.
C15_RsiAvailability ==
    RsiReturned =>
       IF ProbeSamples < MinSamples
       THEN probe.rsi.k # "num"
       ELSE probe.rsi.k = "num"

\* no close of the last 14 moves is below the close before it
NoDownMoves ==
    \A i \in (ProbeSamples - RSI_WINDOW + 1)..ProbeSamples :
       ProbeCloses[i] >= ProbeCloses[i - 1]

\* C16: oscillator division by zero.  With at least 15 samples and no
\* down-move over the 14-period window (rising or flat prices) the result
\* is exactly 100; every other numeric result lies in [0, 100].
C16_RsiDivisionByZero ==
    RsiReturned =>
       IF ProbeSamples >= MinSamples /\ NoDownMoves
       THEN probe.rsi.k = "num" /\ probe.rsi.n = 100 * probe.rsi.d
       ELSE probe.rsi.k = "num" =>
               /\ probe.rsi.d > 0
               /\ 0 <= probe.rsi.n
               /\ probe.rsi.n <= 100 * probe.rsi.d

\* the lookback window of a timeframe, in days
LookbackDays(timeframe) ==
    CASE timeframe = "1D" -> 1
      [] timeframe = "1W" -> 7
      [] timeframe = "1M" -> 30
      [] timeframe = "3M" -> 90
      [] timeframe = "1Y" -> 365
      [] timeframe = "5Y" -> 1825

Dates(rows) == [i \in 1..Len(rows) |-> rows[i].date]

\* the dates of the bars that are on or after the instant of the call
\* minus the window, in cached order
DatesInWindow(bars, timeframe, now) ==
    LET Recent(bar) ==
            Midnight(bar.date) >= now - LookbackDays(timeframe) * TicksPerDay
    IN  Dates(SelectSeq(bars, Recent))

IsSuffix(a, b) ==
    /\ Len(a) <= Len(b)
    /\ SubSeq(b, Len(b) - Len(a) + 1, Len(b)) = a

\* C17: get_chart_data returns, in cached order, the cached bars dated on
\* or after today minus the window of the timeframe, or the empty
\* sequence (on an internal error, and for a symbol without cached
\* history); and the result for a timeframe is a suffix of the result
\* for every longer timeframe.
C17_ChartWindow ==
    (ChartReturned /\ probe.timeframe \in Timeframes) =>
       /\ probe.bars = << >> => probe.chart = << >>
       /\ \/ probe.chart = << >>
          \/ Dates(probe.chart) =
                DatesInWindow(probe.bars, probe.timeframe, probe.now)
       /\ \A longer \in Timeframes :
             LookbackDays(longer) >= LookbackDays(probe.timeframe) =>
                IsSuffix(probe.chart,
                         get_chart_data(probe.bars, longer, probe.now))

----------------------------------------------------------------------------
(* Batching of the price updates: a healthy upstream that sends trade     *)
(* messages of every shape, and clients that connect and read.            *)

\* the "data" lists explored: one trade, two symbols, the same symbol
\* twice, a well-formed trade before an entry without fields, no trade
BatchTrades ==
    { <<Trade("AAA", 105000)>>,
      <<Trade("AAA", 3010), Trade("BBB", 105004)>>,
      <<Trade("AAA", 3010), Trade("BBB", 105004), Trade("AAA", 3020)>>,
      <<Trade("BBB", 3010), BadTrade>>,
      << >> }

RecvBatchTrade == RecvTrade(BatchTrades)

NextBatch ==
    \/ Start
    \/ ConnectOk \/ SubscribeSend
    \/ RecvBatchTrade \/ RecvOther \/ RecvMalformed
    \/ ClientConnect \/ BroadcastDeliver

SpecBatch == Init /\ [][NextBatch]_vars

TradedSymbols(data) == {data[i].s : i \in 1..Len(data)}

\* the price of the last trade of the symbol in the message
LastPrice(data, s) ==
    LET last == CHOOSE i \in 1..Len(data) :
                    /\ data[i].s = s
                    /\ \A j \in (i + 1)..Len(data) : data[j].s # s
    IN  data[last].p

\* C19: batching.  A broadcast is issued only in the step that handles a
\* trade message and carries that message's number, so a message has at
\* most one; its data has exactly one entry per symbol traded in the
\* message, with the price of the symbol's last trade in the message,
\* which is the live price of the symbol after the message and for as
\* long as the broadcast is being sent.
C19_OneBroadcastPerMessage ==
    [][/\ bmsg' # bmsg =>
             /\ msgs' = msgs + 1
             /\ last_frame'.kind = "trade"
             /\ bmsg'.id = msgs'
             /\ DOMAIN bmsg'.data = TradedSymbols(last_frame'.data)
             /\ \A s \in DOMAIN bmsg'.data :
                   /\ bmsg'.data[s].price = LastPrice(last_frame'.data, s)
                   /\ live_prices'[s] = Num(bmsg'.data[s].price)
       /\ wpc' = "broadcasting" =>
             \A s \in DOMAIN bmsg'.data :
                live_prices'[s] = Num(bmsg'.data[s].price)
      ]_vars

\* a message with AAA traded twice and BBB once, broadcast as one update
\* of two entries and read by a client
C19_Witness ==
    /\ last_frame.kind = "trade" /\ Len(last_frame.data) = 3
    /\ bmsg.id = msgs
    /\ DOMAIN bmsg.data = {"AAA", "BBB"}
    /\ bmsg.data["AAA"].price = 3020
    /\ live_prices["AAA"] = Num(3020)
    /\ Got(1, bmsg.id)

----------------------------------------------------------------------------
(* The failure count and the rate-limit signal, under SpecIngest            *)

\* the step is the except branch of _upstream_websocket_loop (lines 195-222)
FailureStep == consecutive_failures' > consecutive_failures

\* C21: a failure that carries the provider's rate-limit signal raises
\* consecutive_failures, the count compared against the give-up ceiling, by
\* more than the 1 an ordinary failure adds, so a run of failures that holds
\* a rate-limited one gives up after fewer than max_reconnect_attempts
\* failures.
C21_RateLimitCountsMore ==
    [][(FailureStep /\ last_failure' = "rate_limit")
          => /\ consecutive_failures' - consecutive_failures > 1
             /\ (wpc' = "gave_up"
                   => ordinary_since_ok' + limited_since_ok'
                         < max_reconnect_attempts)]_vars

----------------------------------------------------------------------------
(* Subscription on connect, under SpecIngest                                *)

\* the ingestor holds an upstream connection whose subscribe loop is over
Listening == wpc \in {"streaming", "broadcasting"}

\* C22: on every connection the ingestor sends one subscribe message for
\* each symbol of the universe, no symbol twice and none omitted, and it
\* has sent all of them before it handles any inbound frame of that
\* connection.
C22_SubscribeAllFirst ==
    [][/\ \A i, j \in 1..Len(subscribed') :
             subscribed'[i] = subscribed'[j] => i = j
       /\ Listening'
             => /\ Range(subscribed') = Range(symbols')
                /\ symbols' # << >>
                      => Range(subscribed') = Range(UniverseTickers)
       /\ msgs' # msgs
             => Listening /\ Range(subscribed) = Range(symbols)]_vars

\* both symbols were subscribed, one message each, and a trade was handled
C22_Witness ==
    /\ wpc = "streaming"
    /\ Len(subscribed) = 2 /\ Range(subscribed) = Range(UniverseTickers)
    /\ last_frame.kind = "trade"

----------------------------------------------------------------------------
(* Broadcasts and price changes, under SpecBatch                            *)

\* the step hands a price_update to the Fan-out Manager (lines 186-190)
BroadcastIssued == bmsg' # bmsg

\* C23: a trade message triggers a broadcast only if it changed at least
\* one price; a message whose trades leave every live price as it was
\* causes no broadcast.
C23_BroadcastOnlyOnChange ==
    [][BroadcastIssued => live_prices' # live_prices]_vars

----------------------------------------------------------------------------
(* Connects and disconnects during a broadcast: a healthy upstream on a     *)
(* service without cache file, clients that connect and close, endpoints    *)
(* that disconnect them, and the sends of the broadcasts in between.        *)

InitChurn == InitWith({NoFile}, {Universe}) /\ probe = NoProbe

NextChurn ==
    \/ Start
    \/ ConnectOk \/ SubscribeSend
    \/ RecvFanoutTrade
    \/ BroadcastDeliver \/ BroadcastSendFails
    \/ ClientConnect \/ ClientDies \/ EndpointDisconnect

SpecChurn == InitChurn /\ [][NextChurn]_vars

Connected == Range(active_connections)

\* C24: connects and disconnects that interleave with the sends of a
\* broadcast are safe.  The broadcast in flight keeps the snapshot it
\* took; a disconnect of a handle that is already gone (the endpoint and
\* the broadcast both remove a closed subscriber) completes and changes
\* nothing; a handle leaves the set only by its own disconnect or its own
\* failed send; a handle enters the set only when it connects, never
\* again later; and no handle is in the set twice.
C24_SafeInterleaving ==
    [][/\ (wpc = "broadcasting" /\ wpc' = "broadcasting") => bsnap' = bsnap
       /\ \A i, j \in 1..Len(active_connections') :
             active_connections'[i] = active_connections'[j] => i = j
       /\ \A c \in Subscribers :
             /\ (c \in Connected /\ c \notin Connected')
                   => \/ health[c] = "dead" /\ health'[c] = "closed"
                      \/ /\ wpc = "broadcasting" /\ bsnap[bidx] = c
                         /\ dropped_at'[c] = bmsg.id
             /\ (c \notin Connected /\ c \in Connected')
                   => health[c] = "new" /\ health'[c] = "ok"
             /\ health'[c] \in {"ok", "hung"} => c \in Connected'
             /\ (health'[c] = "closed" \/ dropped_at'[c] > 0)
                   => c \notin Connected'
             /\ (c \notin Connected
                    /\ \/ health[c] = "dead" /\ health'[c] = "closed"
                       \/ dropped_at'[c] # dropped_at[c])
                   => active_connections' = active_connections
      ]_vars

\* a broadcast is in flight; a subscriber of its snapshot was removed by
\* the broadcast and disconnected again by its endpoint, and another
\* subscriber connected after the snapshot was taken
C24_Witness ==
    /\ wpc = "broadcasting"
    /\ \E c \in Range(bsnap) :
          /\ health[c] = "closed" /\ dropped_at[c] = bmsg.id
          /\ c \notin Connected
    /\ \E d \in Connected : d \notin Range(bsnap)

----------------------------------------------------------------------------
(* The batch history fetch and the cycle, under Spec                        *)

\* the refresher starts a cycle: the batch history fetch of lines 246-262
\* is made
CycleBegins == fpc = "top" /\ cycles' = cycles + 1

\* C25: a failure of the batch history fetch does not abort the cycle.
\* Every cycle that begins, whatever the outcome of its batch fetch, goes
\* on to the per-symbol loop, starting with the first symbol of the
\* universe: no cycle ends at its batch fetch.
C25_BatchFailureKeepsCycle ==
    [][CycleBegins => (fpc' = "symbols" /\ fidx' = 1)]_vars

----------------------------------------------------------------------------
(* Shutdown: the running flag is cleared while both loops run.  The         *)
(* upstream is healthy, the refresher works on an empty cache file and      *)
(* nobody is subscribed.                                                    *)

\* self.running = False: the shutdown the specification describes.  No
\* method of the service clears the flag; the assignment comes from
\* whoever owns the service object.
Stop ==
    /\ running
    /\ running' = FALSE
    /\ UNCHANGED <<symbols, live_prices, msgs, last_frame, fundVars, wsVars,
                   fanVars, procVars>>

\* "while self.running" of _fundamental_loop (line 235) finds the flag
\* cleared before the cycle has begun
RefreshExit ==
    /\ ~running /\ fpc = "top"
    /\ fpc' = "stopped"
    /\ UNCHANGED <<disk, fundamental_cache, fidx, fbatch, cycles, done,
                   last_saved, last_good>>
    /\ UNCHANGED notFund

StopTrades == {<<Trade("AAA", 105000)>>, <<Trade("BBB", 3010)>>}

RecvStopTrade == RecvTrade(StopTrades)

InitStop == InitWith({NoFile}, {Universe}) /\ probe = NoProbe

NextStop ==
    \/ Start \/ Stop
    \/ RefreshBegin \/ RefreshBatchFailed \/ RefreshSymbol
    \/ RefreshSymbolError \/ RefreshSave \/ RefreshWake \/ RefreshExit
    \/ ConnectOk \/ SubscribeSend \/ StreamClosed
    \/ RecvStopTrade

SpecStop == InitStop /\ [][NextStop]_vars

\* the service was started and its running flag is cleared
FlagCleared == ~running /\ fpc # "idle" /\ wpc # "idle"

\* C26: cooperative shutdown.  Once the running flag is cleared no refresh
\* cycle begins and no connection attempt starts, and the inbound frame
\* the ingestor was waiting for is the last one it handles: when the
\* handling of that frame (and of its broadcast) is over the ingestor has
\* stopped instead of waiting for the next frame, so that from then on no
\* live price is updated and nothing is broadcast.
C26_CooperativeShutdown ==
    [][FlagCleared
          => /\ cycles' = cycles
             /\ wpc' = "connecting" => wpc = "connecting"
             /\ msgs' # msgs => wpc' \in {"broadcasting", "stopped"}
             /\ (wpc = "broadcasting" /\ wpc' # "broadcasting")
                   => wpc' = "stopped"]_vars

----------------------------------------------------------------------------
(* The health flag, under SpecIngest                                        *)

\* the ingestor is inside "async with websockets.connect(uri) as ws"
\* (lines 147-193): Subscribing or Streaming
HoldsConnection == wpc \in {"subscribing", "streaming", "broadcasting"}

\* C27: ws_connected is true exactly while the ingestor holds an open
\* upstream connection, and false in every other state: after a transport
\* error, after a remote close (a clean one included), while it waits to
\* reconnect and after it gave up.
C27_ConnectedFlag == ws_connected <=> HoldsConnection

----------------------------------------------------------------------------
(* The pushed update against the pulled quote, under SpecBatch              *)

\* C28: push/pull consistency.  The change and changePercent a
\* price_update carries for a symbol equal the change and changePercent
\* get_snapshot returns for the symbol right after the tick, on the same
\* cache and live price.
C28_PushPullConsistency ==
    [][BroadcastIssued
          => \A s \in DOMAIN bmsg'.data :
                /\ bmsg'.data[s].change = QuoteNext(s).change
                /\ bmsg'.data[s].change_percent = QuoteNext(s).change_percent
      ]_vars

----------------------------------------------------------------------------
(* Records seen by readers while a cycle runs.  Only the refresher thread   *)
(* writes fundamental_cache, so the upstream feed is not scheduled; a       *)
(* reader may run in any state.                                             *)

NextRefresh ==
    \/ Start
    \/ RefreshIdle \/ RefreshBegin \/ RefreshBatchFailed \/ RefreshSymbol
    \/ RefreshSymbolError \/ RefreshSave \/ RefreshWake

SpecRefresh == Init /\ [][NextRefresh]_vars

\* the record holds the history and the constants of one store: its rsi
\* is the one computed from its own history and prev_close
OneCycle(rec) ==
    rec.present
       => rec.constants.rsi =
             StoredRsi(calculate_rsi(rec.history, rec.constants.prev_close))

\* C29: record-level atomicity.  In every state a reader can take the
\* record of a symbol from fundamental_cache, the record is absent or
\* holds history and constants of one and the same store; a step replaces
\* the record of at most one symbol, and the record it puts in place is
\* the whole record of the running cycle: this cycle's history of the
\* symbol with the constants of this cycle's metrics fetch.
C29_RecordAtomicity ==
    [][\A s \in Symbols :
          /\ OneCycle(fundamental_cache'[s])
          /\ fundamental_cache'[s] # fundamental_cache[s]
                => /\ \A t \in Symbols \ {s} :
                         fundamental_cache'[t] = fundamental_cache[t]
                   /\ fundamental_cache'[s].present
                   /\ fundamental_cache'[s].history = fbatch[s]
                   /\ \E m \in MetricFetches :
                         /\ fundamental_cache'[s].constants.prev_close
                               = m.prev_close
                         /\ fundamental_cache'[s].constants.beta = m.beta
      ]_vars

\* mid-cycle over a warm cache: the record of AAA was replaced by this
\* cycle's (another history, another rsi than the cached one), BBB has not
\* been reached, and get_snapshot serves AAA from the new record
C29_Witness ==
    /\ disk = FileOf(WarmCache)
    /\ fpc = "symbols" /\ fidx = 2 /\ done["AAA"] = "stored"
    /\ fbatch["AAA"] = HistRising
    /\ fundamental_cache["AAA"].history = HistRising
    /\ fundamental_cache["AAA"].constants.rsi
          # WarmCache["AAA"].constants.rsi
    /\ QuoteNow("AAA").rsi = fundamental_cache["AAA"].constants.rsi
    /\ fundamental_cache["BBB"] = WarmCache["BBB"]

----------------------------------------------------------------------------
(* Saves that fail, under SpecStore                                         *)

\* C30: a _save_cache that fails or is interrupted leaves the blob of the
\* last successful save intact.  Once a save has succeeded, whatever saves
\* fail after it, the file still loads to the map of that save, and a
\* service constructed at the next start has that map, not the empty one.
C30_FailedSaveKeepsBlob ==
    last_good.ok =>
       /\ load_cache(disk) = last_good.map
       /\ (restarts > 0 /\ ~running) => fundamental_cache = last_good.map

----------------------------------------------------------------------------
(* Live prices written and live prices published, under SpecBatch           *)

\* C31: every write to the live prices is published.  A step that sets
\* the live price of a symbol issues a price_update for that message
\* which holds the symbol at the price the step left it with (the price
\* of its last trade in the message), also when another entry of the
\* message is malformed.
C31_EveryWritePublished ==
    [][\A s \in Symbols :
          live_prices'[s] # live_prices[s]
             => /\ BroadcastIssued
                /\ bmsg'.id = msgs'
                /\ s \in DOMAIN bmsg'.data
                /\ Num(bmsg'.data[s].price) = live_prices'[s]]_vars

----------------------------------------------------------------------------
(* Order of the broadcasts, under SpecChurn                                 *)

\* C32: broadcasts never overlap and keep the upstream order.  The
\* ingestor handles no inbound message while a broadcast is in flight and
\* the broadcast in flight keeps its message and its targets; a
\* price_update delivered to a subscriber is that of the message that
\* arrived last, and is newer than every price_update the subscriber
\* received before, so each subscriber receives them in the order the
\* trade messages arrived.
C32_BroadcastsInOrder ==
    [][/\ msgs' # msgs => wpc = "streaming"
       /\ wpc = "broadcasting"
             => (msgs' = msgs /\ bmsg' = bmsg /\ bsnap' = bsnap)
       /\ \A c \in Subscribers :
             inbox'[c] # inbox[c]
                => /\ wpc = "broadcasting" /\ bmsg.id = msgs
                   /\ inbox'[c] = Append(inbox[c], msgs)
                   /\ \A i \in 1..Len(inbox[c]) : inbox[c][i] < msgs
      ]_vars

\* two trade messages were broadcast: a subscriber connected all along
\* has both updates in order, one that connected in between has the second
C32_Witness ==
    /\ wpc = "streaming" /\ msgs = 2 /\ bmsg.id = 2
    /\ \E c, d \in Subscribers :
          /\ inbox[c] = <<1, 2>>
          /\ inbox[d] = <<2>>
          /\ {c, d} \subseteq Range(active_connections)

----------------------------------------------------------------------------
(* Reconnect progress: the ingestor against an upstream that accepts,      *)
(* refuses, rate-limits and drops connections as it likes.  Every wait of  *)
(* the ingestor is finite and every network call returns: a sleep ends, a  *)
(* connection attempt succeeds or raises, a subscribe send completes or    *)
(* raises.  How a call ends is the upstream's choice.                       *)

InitReconnect == InitWith({NoFile}, {Universe}) /\ probe = NoProbe

\* "await websockets.connect(uri)" returns, one way or the other
ConnectReturns == ConnectOk \/ ConnectFails

\* "await ws.send(...)" of the subscribe loop returns, one way or the other
SubscribeReturns == SubscribeSend \/ SubscribeFails

NextReconnect ==
    \/ Start
    \/ CooldownSleep \/ BackoffSleep
    \/ ConnectOk \/ ConnectFails
    \/ SubscribeSend \/ SubscribeFails
    \/ StreamFails \/ StreamClosed

SpecReconnect ==
    /\ InitReconnect
    /\ [][NextReconnect]_vars
    /\ WF_vars(Start)
    /\ WF_vars(CooldownSleep)
    /\ WF_vars(BackoffSleep)
    /\ WF_vars(ConnectReturns)
    /\ WF_vars(SubscribeReturns)

\* the ingestor runs and holds no upstream connection: it waits before an
\* attempt or makes one
BetweenAttempts ==
    running /\ wpc \in {"cooldown_sleep", "backoff_sleep", "connecting"}

\* C33: reconnect progress.  While running is true the ingestor, from any
\* disconnected state, eventually enters Streaming or reaches the give-up
\* state, and it never has more than max_reconnect_attempts failed
\* attempts behind it since the last successful connection.
C33_ReconnectProgress ==
    /\ [](ordinary_since_ok + limited_since_ok <= max_reconnect_attempts)
    /\ BetweenAttempts ~> (wpc \in {"streaming", "gave_up"})

----------------------------------------------------------------------------
(* Bounds of the counters, under SpecIngest                                 *)

\* C34: counter bounds.  In every state of the ingestor
\* 0 <= consecutive_failures <= reconnect_attempts <= max_reconnect_attempts,
\* and the backoff delay it waited last, like the one it would wait now,
\* is at most max_delay, whatever failures and successful connections
\* came before.
C34_CounterBounds ==
    /\ 0 <= consecutive_failures
    /\ consecutive_failures <= reconnect_attempts
    /\ reconnect_attempts <= max_reconnect_attempts
    /\ waited.backoff <= max_delay
    /\ BackoffDelay(reconnect_attempts) <= max_delay

\* three failures, two of them rate-limited: reconnect_attempts is at the
\* ceiling, ahead of consecutive_failures, and the wait was max_delay
C34_Witness ==
    /\ wpc = "connecting"
    /\ consecutive_failures = 3 /\ limited_since_ok = 2
    /\ reconnect_attempts = max_reconnect_attempts
    /\ waited.backoff = max_delay

====
